---------------------------- MODULE Spec2Model ----------------------------
(***************************************************************************)
(* A model of the three GitHub tools of the opencode-kit bundle            *)
(* (.opencode/tool/github-pr.ts, github-pr-comments.ts,                     *)
(* github-pr-review.ts): the PR reference resolver, the comment assembler, *)
(* the review payload builder and the control flow of each tool's execute, *)
(* with the gh CLI as a nondeterministic collaborator.                     *)
(*                                                                         *)
(* Strings that the code parses are sequences of tokens.  A token is       *)
(* either one character ("7", "-", " ", "/", "x", "o", "r") or a literal   *)
(* run of characters that the code never looks into: a run holds no "/",   *)
(* no digit the code reads, no sign and no white space ("github.com",      *)
(* "pull", "https:"); the empty string is <<>>.                            *)
(* An optional value (undefined / null in the code) is a sequence of       *)
(* length 0 or 1.                                                          *)
(***************************************************************************)
EXTENDS Integers, Sequences, FiniteSets, TLC

VARIABLES tool, args, pc, parsed, repoContext, locals, calls, result

vars == <<tool, args, pc, parsed, repoContext, locals, calls, result>>

(***************************************************************************)
(* Bounds of the model.                                                    *)
(***************************************************************************)
MaxRefLen == 2
MaxHintLen == 4
MaxSegLen == 1
MaxDigits == 2
MaxComments == 3
MaxFetched == 2
MaxDrafts == 2
MaxLoginLen == 3

None == <<>>
Some(x) == <<x>>

(***************************************************************************)
(* Token strings.                                                          *)
(***************************************************************************)
GH == "github.com"

\* https://
Scheme == <<"https:", "/", "/">>
Digits == {"0", "1", "2", "3", "4", "5", "6", "7", "8", "9"}

IsDigit(t) == t \in Digits

DigitVal(t) ==
  CASE t = "0" -> 0 [] t = "1" -> 1 [] t = "2" -> 2 [] t = "3" -> 3
    [] t = "4" -> 4 [] t = "5" -> 5 [] t = "6" -> 6 [] t = "7" -> 7
    [] t = "8" -> 8 [] t = "9" -> 9

SeqsUpTo(S, n) == UNION {[1..k -> S] : k \in 0..n}

NonEmptySeqsUpTo(S, n) == UNION {[1..k -> S] : k \in 1..n}

\* WhiteSpace and LineTerminator of ECMAScript, the characters parseInt
\* skips and trim cuts; a character TLA+ has no escape for is the token of
\* its code point
WhiteSpaceChars ==
  {" ", "\t", "\f", "U+000B", "U+00A0", "U+FEFF", "U+1680", "U+2000", "U+2001",
   "U+2002", "U+2003", "U+2004", "U+2005", "U+2006", "U+2007", "U+2008",
   "U+2009", "U+200A", "U+202F", "U+205F", "U+3000"}

LineTerminators == {"\n", "\r", "U+2028", "U+2029"}

IsSpace(t) == t \in WhiteSpaceChars \cup LineTerminators

RECURSIVE SkipWhitespace(_, _)
SkipWhitespace(s, i) ==
  IF i <= Len(s) /\ IsSpace(s[i]) THEN SkipWhitespace(s, i + 1) ELSE i

RECURSIVE DigitsEnd(_, _)
\* the first index >= i that does not hold a digit
DigitsEnd(s, i) ==
  IF i <= Len(s) /\ IsDigit(s[i]) THEN DigitsEnd(s, i + 1) ELSE i

RECURSIVE DigitsValue(_, _, _)
\* the base-10 value of s[i..j-1]
DigitsValue(s, i, j) ==
  IF j <= i THEN 0 ELSE DigitsValue(s, i, j - 1) * 10 + DigitVal(s[j - 1])

\* JavaScript's parseInt(s, 10): leading whitespace is skipped, a sign is
\* accepted, the longest run of digits is read and whatever follows it is
\* ignored; NaN when no digit is read.
parseInt(s) ==
  LET w == SkipWhitespace(s, 1)
      signed == w <= Len(s) /\ s[w] \in {"-", "+"}
      d == IF signed THEN w + 1 ELSE w
      e == DigitsEnd(s, d)
      v == DigitsValue(s, d, e)
  IN  IF e = d THEN [nan |-> TRUE, val |-> 0]
      ELSE [nan |-> FALSE, val |-> IF signed /\ s[w] = "-" THEN 0 - v ELSE v]

RECURSIVE NextSlash(_, _)
\* the first index >= i that holds "/", Len(s) + 1 when there is none
NextSlash(s, i) ==
  IF i <= Len(s) /\ s[i] # "/" THEN NextSlash(s, i + 1) ELSE i

\* /github\.com\/([^\/]+)\/([^\/]+)\/pull\/(\d+)/ tried at position i.
UrlMatchAt(s, i) ==
  LET b == NextSlash(s, i + 2)
      c == NextSlash(s, b + 1)
      e == DigitsEnd(s, c + 3)
  IN  IF /\ i + 1 <= Len(s) /\ s[i] = GH /\ s[i + 1] = "/"
         /\ b > i + 2 /\ b <= Len(s)
         /\ c > b + 1 /\ c + 2 <= Len(s)
         /\ s[c + 1] = "pull" /\ s[c + 2] = "/"
         /\ e > c + 3
      THEN Some([owner |-> SubSeq(s, i + 2, b - 1),
                 repo |-> SubSeq(s, b + 1, c - 1),
                 digits |-> SubSeq(s, c + 3, e - 1)])
      ELSE None

RECURSIVE UrlMatchFrom(_, _)
\* String.prototype.match without the g flag: the leftmost match.
UrlMatchFrom(s, i) ==
  IF i > Len(s) THEN None
  ELSE IF UrlMatchAt(s, i) # None THEN UrlMatchAt(s, i)
  ELSE UrlMatchFrom(s, i + 1)

urlMatch(s) == UrlMatchFrom(s, 1)

RECURSIVE SplitFrom(_, _)
SplitFrom(s, i) ==
  LET j == NextSlash(s, i)
  IN  IF j > Len(s) THEN <<SubSeq(s, i, Len(s))>>
      ELSE <<SubSeq(s, i, j - 1)>> \o SplitFrom(s, j + 1)

\* repo.split("/")
split(s) == SplitFrom(s, 1)

\* const [owner, repoName] = repo.split("/"): a missing element is undefined
Destructure(parts, k) == IF k <= Len(parts) THEN Some(parts[k]) ELSE None

\* truthiness of an optional string: defined and not empty
TruthyStr(o) == o # None /\ o[1] # <<>>

(***************************************************************************)
(* parsePrReference (the same function in the three tool files).           *)
(* hint is None when the repo argument is omitted.                         *)
(***************************************************************************)
Thrown == [ok |-> FALSE, owner |-> <<>>, repo |-> <<>>, number |-> 0]

BareNumberReference(num, hint) ==
  LET parts == IF hint = None THEN <<>> ELSE split(hint[1])
      owner == Destructure(parts, 1)
      repoName == Destructure(parts, 2)
  IN  IF TruthyStr(hint) /\ TruthyStr(owner) /\ TruthyStr(repoName)
      THEN [ok |-> TRUE, owner |-> owner[1], repo |-> repoName[1], number |-> num]
      ELSE [ok |-> TRUE, owner |-> <<>>, repo |-> <<>>, number |-> num]

UrlReferenceHintFirst(m, hint) ==
  IF TruthyStr(hint)
  THEN BareNumberReference(parseInt(m.digits).val, hint)
  ELSE [ok |-> TRUE, owner |-> m.owner, repo |-> m.repo,
        number |-> parseInt(m.digits).val]

UrlReference(m, hint) ==
  [ok |-> TRUE, owner |-> m.owner, repo |-> m.repo,
   number |-> parseInt(m.digits).val]

parsePrReference(pr, hint) ==
  LET m == urlMatch(pr)
      num == parseInt(pr)
  IN  IF m # None THEN UrlReference(m[1], hint)
      ELSE IF ~num.nan THEN BareNumberReference(num.val, hint)
      ELSE Thrown


(***************************************************************************)
(* Number.prototype.toString, as used by the template literals.            *)
(***************************************************************************)
DigitTok(d) ==
  CASE d = 0 -> "0" [] d = 1 -> "1" [] d = 2 -> "2" [] d = 3 -> "3"
    [] d = 4 -> "4" [] d = 5 -> "5" [] d = 6 -> "6" [] d = 7 -> "7"
    [] d = 8 -> "8" [] d = 9 -> "9"

RECURSIVE NatToString(_)
NatToString(n) ==
  IF n < 10 THEN <<DigitTok(n)>>
  ELSE NatToString(n \div 10) \o <<DigitTok(n % 10)>>

NumberToString(n) == IF n < 0 THEN <<"-">> \o NatToString(0 - n) ELSE NatToString(n)

(***************************************************************************)
(* String.prototype.trim on a token string.                                *)
(***************************************************************************)
RECURSIVE TrimLeft(_)
TrimLeft(s) == IF s # <<>> /\ IsSpace(Head(s)) THEN TrimLeft(Tail(s)) ELSE s

RECURSIVE TrimRight(_)
TrimRight(s) ==
  IF s # <<>> /\ IsSpace(s[Len(s)]) THEN TrimRight(SubSeq(s, 1, Len(s) - 1)) ELSE s

trim(s) == TrimLeft(TrimRight(s))

(***************************************************************************)
(* The gh CLI, run through Bun.$: every call either resolves with the      *)
(* command's output or rejects.  A rejection carries a thrown value: an    *)
(* Error with a message (a sequence of fragments), or a value that is not  *)
(* an Error.  "{json}" is a well-formed JSON object (the API's error       *)
(* body), "{broken" and "broken}" are text holding one brace.              *)
(***************************************************************************)
ErrorMessages ==
  { <<"gh: command not found">>,
    <<"not logged in">>,
    <<"401">>,
    <<"Could not resolve">>,
    <<"422">>,
    <<"422", "{json}">>,
    <<"rate limit">>,
    <<"{broken", "401", "broken}">>,
    <<"failed">> }

Rejections ==
  {[isError |-> TRUE, message |-> m] : m \in ErrorMessages}
    \cup {[isError |-> FALSE, message |-> <<>>]}

\* what JSON.parse throws on output that is not JSON: the message is the
\* engine's, it may quote any of the rejected text and so hold a fragment
\* the handlers test
SyntaxError(quoted) ==
  [isError |-> TRUE, message |-> <<"JSON Parse error: ">> \o quoted]

QuotedTexts == {<<>>} \cup ErrorMessages

SyntaxErrors == {SyntaxError(q) : q \in QuotedTexts}

\* what a call on a value that is not a function throws
TypeError == [isError |-> TRUE, message |-> <<"is not a function">>]

\* error.message.includes(fragment)
includes(message, fragment) == \E i \in 1..Len(message) : message[i] = fragment

NoOutput == <<>>

\* nothing was thrown
NoError == [isError |-> FALSE, message |-> <<"(none)">>]

\* a call made: it resolved with output the code could use ("ok"), resolved
\* with output that JSON.parse rejects ("unparsable"), or rejected
Call(cmd, repoArg, number, status, out, input) ==
  [cmd |-> cmd, repoArg |-> repoArg, number |-> number, status |-> status,
   ok |-> status # "rejected", out |-> out, input |-> input,
   error |-> NoError]

\* the call, with the value that was thrown at the step
Failed(call, e) == [call EXCEPT !.error = e]

NoResult == [kind |-> "none", json |-> [pending |-> TRUE]]
Returned(json) == [kind |-> "returned", json |-> json]
\* an exception that leaves execute
Escaped(message) == [kind |-> "thrown", json |-> [exception |-> message]]

NoLocals == [empty |-> TRUE]

DefaultArgs(pr, repo) ==
  [pr |-> pr, repo |-> repo, body |-> "", event |-> None, comments |-> None,
   dryRun |-> None]

(***************************************************************************)
(* The statement `const parsed = parsePrReference(pr, repo)`, the first    *)
(* of each execute; it stands outside every try block, so what             *)
(* parsePrReference throws leaves execute.                                 *)
(***************************************************************************)
\* a lookup made whatever the reference carries
NeedsAmbientAlways(p) == TRUE

NeedsAmbient(p) == ~(p.owner # <<>> /\ p.repo # <<>>)

AfterParse(t, p) ==
  CASE t = "parsePrReference" -> "done"
    [] t = "github-pr" -> "metadata"
    [] t = "github-pr-comments" ->
         IF NeedsAmbient(p) THEN "repoView" ELSE "reviewComments"
    [] t = "github-pr-review" ->
         IF NeedsAmbient(p) THEN "repoView" ELSE "headSha"

\* `${parsed.owner}/${parsed.repo}`
RepoOf(p) == p.owner \o <<"/">> \o p.repo

Parse ==
  /\ pc = "parse"
  /\ LET p == parsePrReference(args.pr, args.repo)
     IN  /\ parsed' = p
         /\ IF p.ok
            THEN /\ pc' = AfterParse(tool, p)
                 /\ result' = IF tool = "parsePrReference"
                              THEN Returned([owner |-> p.owner, repo |-> p.repo,
                                             number |-> p.number])
                              ELSE result
                 /\ repoContext' = IF NeedsAmbient(p) THEN <<>> ELSE RepoOf(p)
            ELSE /\ pc' = "done"
                 /\ result' = Escaped(<<"Invalid PR reference">>)
                 /\ repoContext' = <<>>
  /\ UNCHANGED <<tool, args, locals, calls>>

(***************************************************************************)
(* Inputs of the resolver.                                                 *)
(***************************************************************************)
RefAlphabet == {"0", "7", "-", "x", " ", "\t", "/"}
SegAlphabet == {"o", "r", "pull"}
NumAlphabet == {"0", "7"}
HintAlphabet == {"o", "r", "/"}

BareRefs == SeqsUpTo(RefAlphabet, MaxRefLen)

UrlRefs ==
  { pre \o <<GH, "/">> \o o \o <<"/">> \o r \o <<"/", "pull", "/">> \o n \o post :
      pre \in {<<>>, Scheme},
      o \in NonEmptySeqsUpTo(SegAlphabet, MaxSegLen),
      r \in NonEmptySeqsUpTo(SegAlphabet, MaxSegLen),
      n \in NonEmptySeqsUpTo(NumAlphabet, MaxDigits),
      post \in {<<>>, <<"x">>} }

Hints ==
  {None} \cup {Some(h) : h \in SeqsUpTo(HintAlphabet, MaxHintLen)}
         \cup {Some(<<"o", "/", "r", "/", "x">>),
               Some(Scheme \o <<GH, "/", "o", "/", "r">>)}

\* references with a scheme where the pattern wants a segment
OddRefs ==
  { <<GH, "/">> \o Scheme \o <<"/", "r", "/", "pull", "/", "7">>,
    <<GH, "/", "o", "/">> \o Scheme \o <<"pull", "/", "7">> }

UrlHints == {None, Some(<<"r", "/", "o">>), Some(<<"o">>)}

InitResolve ==
  /\ tool = "parsePrReference"
  /\ \/ \E pr \in BareRefs \cup OddRefs, h \in Hints : args = DefaultArgs(pr, h)
     \/ \E pr \in UrlRefs, h \in UrlHints : args = DefaultArgs(pr, h)
  /\ pc = "parse"
  /\ parsed = Thrown
  /\ repoContext = <<>>
  /\ locals = NoLocals
  /\ calls = <<>>
  /\ result = NoResult

NextResolve == Parse

SpecResolve == InitResolve /\ [][NextResolve]_vars


(***************************************************************************)
(* github-pr.ts: the snapshot tool.  Four gh calls in one try block, each  *)
(* awaited before the next is started.                                     *)
(***************************************************************************)
SmallMax == 100
MediumMax == 500
LargeMax == 1000

\* the categories with their upper limits left out
sizeCategoryExclusive(totalLinesChanged) ==
  IF totalLinesChanged < SmallMax THEN "small"
  ELSE IF totalLinesChanged < MediumMax THEN "medium"
  ELSE IF totalLinesChanged < LargeMax THEN "large"
  ELSE "very large"

sizeCategory(totalLinesChanged) ==
  IF totalLinesChanged <= SmallMax THEN "small"
  ELSE IF totalLinesChanged <= MediumMax THEN "medium"
  ELSE IF totalLinesChanged <= LargeMax THEN "large"
  ELSE "very large"

\* the catch block of github-pr.ts
CatchPr(e, number) ==
  IF ~e.isError THEN [error |-> <<"An unknown error occurred">>]
  ELSE IF includes(e.message, "gh: command not found")
    THEN [error |-> <<"GitHub CLI (gh) is not installed">>]
  ELSE IF includes(e.message, "not logged in")
    THEN [error |-> <<"Not authenticated with GitHub">>]
  ELSE IF includes(e.message, "Could not resolve")
    THEN [error |-> <<"Could not find PR #">> \o NumberToString(number)]
  ELSE [error |-> e.message]

\* `-R owner/repo` when the reference names the repository, "" otherwise
RepoFlag(p) == IF NeedsAmbient(p) THEN <<>> ELSE <<"-R ">> \o RepoOf(p)

\* what `gh pr view --json number,title,body,...,additions,deletions,...` prints
Metadatas ==
  [additions : {0, 100, 500, 1000}, deletions : {0, 1, 1001},
   body : {<<>>, <<"text">>}, commits : {2}]

FilesDatas ==
  { <<>>, <<[path |-> "src/a.ts", additions |-> 100, deletions |-> 1]>> }

CommitsDatas ==
  { <<>>,
    <<[messageHeadline |-> <<"fix">>, messageBody |-> <<>>],
      [messageHeadline |-> <<"feat">>, messageBody |-> <<"text">>]>> }

DiffOutputs == { <<"diff --git", "\n">> }

FailPrRetry(cmd, e, status) ==
  /\ calls' = Append(calls, Failed(Call(cmd, RepoFlag(parsed), parsed.number,
                                      status, NoOutput, NoOutput), e))
  /\ UNCHANGED <<result, pc, locals>>

\* a step that rejects, or whose output JSON.parse rejects: the catch block
\* returns the error object
FailPr(cmd, e, status) ==
  /\ calls' = Append(calls, Failed(Call(cmd, RepoFlag(parsed), parsed.number,
                                      status, NoOutput, NoOutput), e))
  /\ result' = Returned(CatchPr(e, parsed.number))
  /\ pc' = "done"
  /\ locals' = NoLocals

FetchMetadata ==
  /\ tool = "github-pr" /\ pc = "metadata"
  /\ \/ \E m \in Metadatas :
          /\ calls' = Append(calls, Call("pr view metadata", RepoFlag(parsed),
                                         parsed.number, "ok", m, NoOutput))
          /\ locals' = [metadata |-> m]
          /\ pc' = "diff"
          /\ UNCHANGED result
     \/ \E e \in Rejections : FailPr("pr view metadata", e, "rejected")
     \/ \E e \in SyntaxErrors : FailPr("pr view metadata", e, "unparsable")
  /\ UNCHANGED <<tool, args, parsed, repoContext>>

FetchDiff ==
  /\ tool = "github-pr" /\ pc = "diff"
  /\ \/ \E d \in DiffOutputs :
          /\ calls' = Append(calls, Call("pr diff", RepoFlag(parsed),
                                         parsed.number, "ok", d, NoOutput))
          /\ locals' = [metadata |-> locals.metadata, diffResult |-> d]
          /\ pc' = "files"
          /\ UNCHANGED result
     \/ \E e \in Rejections : FailPr("pr diff", e, "rejected")
  /\ UNCHANGED <<tool, args, parsed, repoContext>>

FetchFiles ==
  /\ tool = "github-pr" /\ pc = "files"
  /\ \/ \E f \in FilesDatas :
          /\ calls' = Append(calls, Call("pr view files", RepoFlag(parsed),
                                         parsed.number, "ok", f, NoOutput))
          /\ locals' = [metadata |-> locals.metadata,
                        diffResult |-> locals.diffResult, files |-> f]
          /\ pc' = "commits"
          /\ UNCHANGED result
     \/ \E e \in Rejections : FailPr("pr view files", e, "rejected")
     \/ \E e \in SyntaxErrors : FailPr("pr view files", e, "unparsable")
  /\ UNCHANGED <<tool, args, parsed, repoContext>>

\* x || fallback on a string
OrElse(x, fallback) == IF x # <<>> THEN x ELSE fallback

\* the output object of github-pr.ts (of metadata, the fields copied as they
\* are, title, author, refs, state, url and dates, are left out);
\* JSON.stringify drops a property whose value is undefined
CommitMessage(c) ==
  IF c.messageBody # <<>>
  THEN [headline |-> c.messageHeadline, body |-> c.messageBody]
  ELSE [headline |-> c.messageHeadline]

Snapshot(metadata, diffResult, filesData, commitsData) ==
  LET totalLinesChanged == metadata.additions + metadata.deletions
  IN  [metadata |-> [description |-> OrElse(metadata.body, <<"(no description)">>)],
       stats |-> [additions |-> metadata.additions,
                  deletions |-> metadata.deletions,
                  totalLinesChanged |-> totalLinesChanged,
                  sizeCategory |-> sizeCategory(totalLinesChanged),
                  commits |-> metadata.commits],
       files |-> [i \in 1..Len(filesData) |->
                    [path |-> filesData[i].path,
                     additions |-> filesData[i].additions,
                     deletions |-> filesData[i].deletions]],
       commitMessages |-> [i \in 1..Len(commitsData) |-> CommitMessage(commitsData[i])],
       diff |-> trim(diffResult)]

FetchCommits ==
  /\ tool = "github-pr" /\ pc = "commits"
  /\ \/ \E c \in CommitsDatas :
          /\ calls' = Append(calls, Call("pr view commits", RepoFlag(parsed),
                                         parsed.number, "ok", c, NoOutput))
          /\ result' = Returned(Snapshot(locals.metadata, locals.diffResult,
                                         locals.files, c))
          /\ pc' = "done"
          /\ locals' = NoLocals
     \/ \E e \in Rejections : FailPr("pr view commits", e, "rejected")
     \/ \E e \in SyntaxErrors : FailPr("pr view commits", e, "unparsable")
  /\ UNCHANGED <<tool, args, parsed, repoContext>>

\* references and hints the tools are run on
ToolRefs ==
  { <<"7">>, <<"x">>, <<>>, <<"7", "x">>, <<"0">>, <<"-", "7">>,
    Scheme \o <<GH, "/", "o", "/", "r", "/", "pull", "/", "7">> }

ToolHints == {None, Some(<<"o", "/", "r">>)}

InitTool(t, a) ==
  /\ tool = t
  /\ args = a
  /\ pc = "parse"
  /\ parsed = Thrown
  /\ repoContext = <<>>
  /\ locals = NoLocals
  /\ calls = <<>>
  /\ result = NoResult

InitPr ==
  \E pr \in ToolRefs, h \in ToolHints : InitTool("github-pr", DefaultArgs(pr, h))

(***************************************************************************)
(* github-pr-comments.ts: bot detection, the mapping of the API's comments *)
(* and the assembler (grouping by file, threading).                        *)
(***************************************************************************)
\* a login is a sequence of characters; Lower is what the i flag of the
\* patterns does to one character (only the letters A-Z have another case)
Lower(t) ==
  CASE t = "A" -> "a"
    [] t = "B" -> "b"
    [] t = "C" -> "c"
    [] t = "D" -> "d"
    [] t = "E" -> "e"
    [] t = "F" -> "f"
    [] t = "G" -> "g"
    [] t = "H" -> "h"
    [] t = "I" -> "i"
    [] t = "J" -> "j"
    [] t = "K" -> "k"
    [] t = "L" -> "l"
    [] t = "M" -> "m"
    [] t = "N" -> "n"
    [] t = "O" -> "o"
    [] t = "P" -> "p"
    [] t = "Q" -> "q"
    [] t = "R" -> "r"
    [] t = "S" -> "s"
    [] t = "T" -> "t"
    [] t = "U" -> "u"
    [] t = "V" -> "v"
    [] t = "W" -> "w"
    [] t = "X" -> "x"
    [] t = "Y" -> "y"
    [] t = "Z" -> "z"
    [] OTHER -> t

\* a comparison that tells the cases apart
KeepCase(s) == s

\* the login as the i flag compares it
toLowerCase(s) == [i \in 1..Len(s) |-> Lower(s[i])]

\* /text$/i
EndsWith(login, text) ==
  /\ Len(login) >= Len(text)
  /\ SubSeq(toLowerCase(login), Len(login) - Len(text) + 1, Len(login)) = text

\* /^text$/i
Equals(login, text) == toLowerCase(login) = text

AutomationAccounts ==
  << <<"g", "i", "t", "h", "u", "b", "-", "a", "c", "t", "i", "o", "n", "s">>,
     <<"d", "e", "p", "e", "n", "d", "a", "b", "o", "t">>,
     <<"r", "e", "n", "o", "v", "a", "t", "e">>,
     <<"c", "o", "d", "e", "c", "o", "v">>,
     <<"s", "o", "n", "a", "r", "c", "l", "o", "u", "d">>,
     <<"n", "e", "t", "l", "i", "f", "y">>,
     <<"v", "e", "r", "c", "e", "l">> >>

\* the patterns in the order of the array
botPatterns ==
  << [anchored |-> FALSE, text |-> <<"[", "b", "o", "t", "]">>],
     [anchored |-> FALSE, text |-> <<"b", "o", "t">>] >>
    \o [i \in 1..Len(AutomationAccounts) |->
          [anchored |-> TRUE, text |-> AutomationAccounts[i]]]

\* pattern.test(login)
test(pattern, login) ==
  IF pattern.anchored THEN Equals(login, pattern.text)
  ELSE EndsWith(login, pattern.text)

\* botPatterns.some(pattern => pattern.test(login))
isLikelyBot(login) ==
  \E i \in 1..Len(botPatterns) : test(botPatterns[i], login)

(***************************************************************************)
(* isLikelyBot on its own: one login classified.                           *)
(***************************************************************************)
LoginAlphabet == {"b", "o", "t", "B", "O", "T", "x", "]"}

NamedLogins ==
  { <<"g", "i", "t", "h", "u", "b", "-", "a", "c", "t", "i", "o", "n", "s">>,
    <<"G", "I", "T", "H", "U", "B", "-", "A", "C", "T", "I", "O", "N", "S">>,
    <<"G", "i", "t", "h", "u", "b", "-", "a", "c", "t", "i", "o", "n", "s">>,
    <<"d", "e", "p", "e", "n", "d", "a", "b", "o", "t">>,
    <<"D", "E", "P", "E", "N", "D", "A", "B", "O", "T">>,
    <<"D", "e", "p", "e", "n", "d", "a", "b", "o", "t">>,
    <<"r", "e", "n", "o", "v", "a", "t", "e">>,
    <<"R", "E", "N", "O", "V", "A", "T", "E">>,
    <<"R", "e", "n", "o", "v", "a", "t", "e">>,
    <<"c", "o", "d", "e", "c", "o", "v">>,
    <<"C", "O", "D", "E", "C", "O", "V">>,
    <<"C", "o", "d", "e", "c", "o", "v">>,
    <<"s", "o", "n", "a", "r", "c", "l", "o", "u", "d">>,
    <<"S", "O", "N", "A", "R", "C", "L", "O", "U", "D">>,
    <<"S", "o", "n", "a", "r", "c", "l", "o", "u", "d">>,
    <<"n", "e", "t", "l", "i", "f", "y">>,
    <<"N", "E", "T", "L", "I", "F", "Y">>,
    <<"N", "e", "t", "l", "i", "f", "y">>,
    <<"v", "e", "r", "c", "e", "l">>,
    <<"V", "E", "R", "C", "E", "L">>,
    <<"V", "e", "r", "c", "e", "l">>,
    <<"x", "r", "e", "n", "o", "v", "a", "t", "e">>,
    <<"r", "e", "n", "o", "v", "a", "t", "e", "x">>,
    <<"v", "e", "r", "c", "e", "l", "-", "x">>,
    <<"C", "o", "d", "e", "c", "o", "v", "-", "i", "o">>,
    <<"o", "c", "t", "o", "c", "a", "t">>,
    <<"r", "o", "b", "o", "t">>,
    <<"R", "o", "B", "o", "T">>,
    <<"b", "o", "t", "s">>,
    <<"[", "b", "o", "t", "]">>,
    <<"x", "[", "b", "o", "t", "]">>,
    <<"x", "[", "B", "O", "T", "]">>,
    <<"x", "[", "B", "o", "t", "]">>,
    <<"x", "[", "b", "o", "t">>,
    <<"x", "[", "b", "o", "]">>,
    <<"x", "[", "b", "o", "t", "]", "x">>,
    <<"d", "e", "p", "e", "n", "d", "a", "b", "o", "t", "[", "b", "o", "t", "]">>,
    <<"D", "e", "p", "e", "n", "d", "a", "b", "o", "t", "[", "B", "o", "t", "]">>,
    <<"b", "o", "t", "]">>,
    <<"[", "b", "o", "t">> }

Logins == SeqsUpTo(LoginAlphabet, MaxLoginLen) \cup NamedLogins

InitBot ==
  /\ tool = "isLikelyBot"
  /\ \E l \in Logins : args = [login |-> l]
  /\ pc = "classify"
  /\ parsed = Thrown
  /\ repoContext = <<>>
  /\ locals = NoLocals
  /\ calls = <<>>
  /\ result = NoResult

Classify ==
  /\ tool = "isLikelyBot" /\ pc = "classify"
  /\ result' = Returned([isBot |-> isLikelyBot(args.login)])
  /\ pc' = "done"
  /\ UNCHANGED <<tool, args, parsed, repoContext, locals, calls>>

NextBot == Classify

SpecBot == InitBot /\ [][NextBot]_vars

\* c.in_reply_to_id || null
ReplyToOrNull(in_reply_to_id) ==
  IF in_reply_to_id # None /\ in_reply_to_id[1] # 0 THEN in_reply_to_id ELSE None

MapReviewComment(c) ==
  [id |-> c.id, path |-> c.path, author |-> c.login,
   isBot |-> isLikelyBot(c.login),
   inReplyToId |-> ReplyToOrNull(c.in_reply_to_id)]

MapReviewComments(raw) == [i \in 1..Len(raw) |-> MapReviewComment(raw[i])]

(***************************************************************************)
(* commentsByFile is a plain object ({}) keyed by path: a key that         *)
(* Object.prototype defines is found on the object before any bucket is    *)
(* made, and the own keys are enumerated (by JSON.stringify and            *)
(* Object.keys) with the integer keys first, in ascending order, and the   *)
(* other keys after them in the order of their creation.                   *)
(* The object is the sequence of its own entries in creation order.        *)
(* A path is a string of tokens: digits one by one, a word as one token.   *)
(***************************************************************************)
ObjectPrototypeKeys ==
  {"constructor", "toString", "toLocaleString", "valueOf", "hasOwnProperty",
   "isPrototypeOf", "propertyIsEnumerable", "__proto__", "__defineGetter__",
   "__defineSetter__", "__lookupGetter__", "__lookupSetter__"}

\* the path is a property of Object.prototype (each of them is truthy, and
\* none has a push method)
IsInherited(path) == Len(path) = 1 /\ path[1] \in ObjectPrototypeKeys

\* 2^32 - 2, the largest array index, digit by digit
MaxArrayIndex == <<"4", "2", "9", "4", "9", "6", "7", "2", "9", "4">>

RECURSIVE DigitsLess(_, _, _)
\* a < b for numerals of one length, compared from position i on
DigitsLess(a, b, i) ==
  IF i > Len(a) THEN FALSE
  ELSE IF DigitVal(a[i]) # DigitVal(b[i]) THEN DigitVal(a[i]) < DigitVal(b[i])
  ELSE DigitsLess(a, b, i + 1)

\* a < b for numerals without leading zeros
IndexLess(a, b) ==
  Len(a) < Len(b) \/ (Len(a) = Len(b) /\ DigitsLess(a, b, 1))

\* an integer key: the canonical numeral of an array index
IsIntegerKey(path) ==
  /\ path # <<>>
  /\ \A i \in 1..Len(path) : IsDigit(path[i])
  /\ Len(path) > 1 => path[1] # "0"
  /\ ~IndexLess(MaxArrayIndex, path)

HasOwn(entries, path) == \E i \in 1..Len(entries) : entries[i].path = path

\* !commentsByFile[comment.path]
LookupIsFalsy(entries, path) ==
  ~HasOwn(entries, path) /\ ~IsInherited(path)

\* commentsByFile[comment.path].push(comment), on an own bucket
Push(entries, comment) ==
  [i \in 1..Len(entries) |->
     IF entries[i].path = comment.path
     THEN [path |-> entries[i].path,
           comments |-> Append(entries[i].comments, comment)]
     ELSE entries[i]]

RECURSIVE GroupLoop(_, _, _)
\* the loop `for (const comment of reviewComments)` from index k on
GroupLoop(reviewComments, k, entries) ==
  IF k > Len(reviewComments) THEN [thrown |-> FALSE, entries |-> entries]
  ELSE LET comment == reviewComments[k]
           made == IF LookupIsFalsy(entries, comment.path)
                   THEN Append(entries, [path |-> comment.path, comments |-> <<>>])
                   ELSE entries
       IN  IF HasOwn(made, comment.path)
           THEN GroupLoop(reviewComments, k + 1, Push(made, comment))
           ELSE [thrown |-> TRUE, entries |-> made]

RECURSIVE AscendingIntegerKeys(_)
AscendingIntegerKeys(keys) ==
  IF keys = {} THEN <<>>
  ELSE LET least == CHOOSE k \in keys :
                      \A other \in keys : ~IndexLess(other, k)
       IN  <<least>> \o AscendingIntegerKeys(keys \ {least})

EntryOf(entries, path) ==
  entries[CHOOSE i \in 1..Len(entries) : entries[i].path = path]

IsStringKey(e) == ~IsIntegerKey(e.path)

\* the own entries in the order JSON.stringify and Object.keys enumerate them
OwnPropertyOrder(entries) ==
  LET ints == AscendingIntegerKeys(
                {entries[i].path :
                   i \in {k \in 1..Len(entries) : IsIntegerKey(entries[k].path)}})
  IN  [i \in 1..Len(ints) |-> EntryOf(entries, ints[i])]
        \o SelectSeq(entries, IsStringKey)

commentsByFile(reviewComments) ==
  LET g == GroupLoop(reviewComments, 1, <<>>)
  IN  [thrown |-> g.thrown, entries |-> OwnPropertyOrder(g.entries)]

\* every comment taken for the start of a thread
EveryCommentTopLevel(c) == TRUE

IsTopLevel(c) == c.inReplyToId = None

RepliesFirstOnly(reviewComments, parent) ==
  LET IsReply(c) == c.inReplyToId = Some(parent.id)
      all == SelectSeq(reviewComments, IsReply)
  IN  IF all = <<>> THEN <<>> ELSE <<all[1]>>

\* the replies and the replies to them
RepliesWithDescendants(reviewComments, parent) ==
  LET IsReply(c) == c.inReplyToId = Some(parent.id)
      IsDeeper(c) ==
        \E j \in 1..Len(reviewComments) :
          /\ IsReply(reviewComments[j])
          /\ c.inReplyToId = Some(reviewComments[j].id)
      IsBelow(c) == IsReply(c) \/ IsDeeper(c)
  IN  SelectSeq(reviewComments, IsBelow)

RepliesTo(reviewComments, parent) ==
  LET IsReply(c) == c.inReplyToId = Some(parent.id)
  IN  SelectSeq(reviewComments, IsReply)

threads(reviewComments) ==
  LET topLevelComments == SelectSeq(reviewComments, IsTopLevel)
  IN  [i \in 1..Len(topLevelComments) |->
         [parent |-> topLevelComments[i],
          replies |-> RepliesTo(reviewComments, topLevelComments[i])]]

IsBotComment(c) == c.isBot

\* lines 190-223 of github-pr-comments.ts: the object the tool returns, or
\* the TypeError of a push on a value that is no array
Assemble(reviewComments, issueComments, reviews) ==
  LET byFile == commentsByFile(reviewComments)
      th == threads(reviewComments)
  IN  IF byFile.thrown THEN [thrown |-> TRUE, output |-> [none |-> TRUE]]
      ELSE [thrown |-> FALSE,
            output |->
              [stats |-> [totalReviewComments |-> Len(reviewComments),
                          totalIssueComments |-> Len(issueComments),
                          totalReviews |-> Len(reviews),
                          filesWithComments |-> Len(byFile.entries),
                          botComments |-> Len(SelectSeq(reviewComments, IsBotComment))
                                          + Len(SelectSeq(issueComments, IsBotComment)),
                          unresolvedThreads |-> Len(th)],
               reviews |-> reviews,
               issueComments |-> issueComments,
               reviewComments |-> reviewComments,
               commentsByFile |-> byFile.entries,
               threads |-> th]]

(***************************************************************************)
(* The assembler on its own: lines 117-144 and 190-223 applied to a list   *)
(* of comments as the API delivers them.                                   *)
(***************************************************************************)
CommentIds == {1, 2, 3}
ReplyIds == {0, 1, 2, 9}
FilePaths ==
  {<<"src/a.ts">>, <<"src/b.ts">>, <<"7">>, <<"1", "2">>, <<"0", "7">>,
   <<"constructor">>}

RawComment(id, path, reply) ==
  [id |-> id, path |-> path, in_reply_to_id |-> reply, login |-> <<"o", "c", "t", "o", "c", "a", "t">>]

\* comments of one file, with every id and reply id
ThreadInputs ==
  LET one == {RawComment(id, <<"src/a.ts">>, reply) :
                id \in CommentIds,
                reply \in {None} \cup {Some(r) : r \in ReplyIds}}
  IN  SeqsUpTo(one, MaxComments)

\* top-level comments with distinct ids, on every path
PathInputs ==
  UNION {{[i \in 1..k |-> RawComment(i, f[i], None)] : f \in [1..k -> FilePaths]} :
           k \in 0..MaxComments}

InitAssemble ==
  /\ tool = "assemble"
  /\ \E raw \in ThreadInputs \cup PathInputs : args = [reviewCommentsRaw |-> raw]
  /\ pc = "assemble"
  /\ parsed = Thrown
  /\ repoContext = <<>>
  /\ locals = NoLocals
  /\ calls = <<>>
  /\ result = NoResult

AssembleStep ==
  /\ tool = "assemble" /\ pc = "assemble"
  /\ LET a == Assemble(MapReviewComments(args.reviewCommentsRaw), <<>>, <<>>)
     IN  result' = IF a.thrown THEN Escaped(TypeError.message)
                   ELSE Returned(a.output)
  /\ pc' = "done"
  /\ UNCHANGED <<tool, args, parsed, repoContext, locals, calls>>

NextAssemble == AssembleStep

SpecAssemble == InitAssemble /\ [][NextAssemble]_vars

(***************************************************************************)
(* github-pr-comments.ts: execute.                                         *)
(***************************************************************************)
RepoViewOutputs == { <<"amb", "/", "repo", "\n">> }

\* the catch block of github-pr-comments.ts
CatchComments(e) ==
  IF ~e.isError THEN [error |-> <<"An unknown error occurred">>]
  ELSE IF includes(e.message, "gh: command not found")
    THEN [error |-> <<"GitHub CLI (gh) is not installed">>]
  ELSE IF includes(e.message, "not logged in") \/ includes(e.message, "401")
    THEN [error |-> <<"Not authenticated with GitHub">>]
  ELSE [error |-> e.message]

CouldNotDetermineRepository == [error |-> <<"Could not determine repository">>]

\* lines 101-109: the ambient repository, asked of gh
RepoViewComments ==
  /\ tool = "github-pr-comments" /\ pc = "repoView"
  /\ \/ \E out \in RepoViewOutputs :
          /\ calls' = Append(calls, Call("repo view", <<>>, 0, "ok", out, NoOutput))
          /\ repoContext' = trim(out)
          /\ pc' = "reviewComments"
          /\ UNCHANGED result
     \/ \E e \in Rejections :
          /\ calls' = Append(calls, Failed(Call("repo view", <<>>, 0, "rejected",
                                              NoOutput, NoOutput), e))
          /\ result' = Returned(CouldNotDetermineRepository)
          /\ pc' = "done"
          /\ UNCHANGED repoContext
  /\ UNCHANGED <<tool, args, parsed, locals>>

FailComments(cmd, e, status) ==
  /\ calls' = Append(calls, Failed(Call(cmd, repoContext, parsed.number, status,
                                        NoOutput, NoOutput), e))
  /\ result' = Returned(CatchComments(e))
  /\ pc' = "done"
  /\ locals' = NoLocals

ToolPaths == {<<"src/a.ts">>, <<"7">>, <<"constructor">>}
ToolCommentIds == {1, 2}
ToolReplyIds == {0, 1, 9}

\* what `gh api repos/.../pulls/N/comments --paginate` prints, parsed
FetchedReviewComments ==
  LET one == {RawComment(id, path, reply) :
                id \in ToolCommentIds, path \in ToolPaths,
                reply \in {None} \cup {Some(r) : r \in ToolReplyIds}}
  IN  SeqsUpTo(one, MaxFetched)

FetchedIssueComments ==
  { <<>>,
    <<[id |-> 11, login |-> <<"o", "c", "t", "o", "c", "a", "t">>],
      [id |-> 12, login |-> <<"d", "e", "p", "e", "n", "d", "a", "b", "o", "t", "[", "b", "o", "t", "]">>]>> }

FetchedReviews ==
  { <<>>,
    <<[id |-> 21, state |-> "PENDING", body |-> <<>>, login |-> <<"o", "c", "t", "o", "c", "a", "t">>],
      [id |-> 22, state |-> "APPROVED", body |-> <<>>, login |-> <<"R", "e", "n", "o", "v", "a", "t", "e">>]>> }

MapIssueComments(raw) ==
  [i \in 1..Len(raw) |->
     [id |-> raw[i].id, author |-> raw[i].login, isBot |-> isLikelyBot(raw[i].login)]]

NotPending(r) == r.state # "PENDING"

MapReviews(raw) ==
  LET kept == SelectSeq(raw, NotPending)
  IN  [i \in 1..Len(kept) |->
         [id |-> kept[i].id, state |-> kept[i].state, body |-> kept[i].body,
          author |-> kept[i].login, isBot |-> isLikelyBot(kept[i].login)]]

FetchReviewComments ==
  /\ tool = "github-pr-comments" /\ pc = "reviewComments"
  /\ \/ \E raw \in FetchedReviewComments :
          /\ calls' = Append(calls, Call("api pulls comments", repoContext,
                                         parsed.number, "ok", raw, NoOutput))
          /\ locals' = [reviewComments |-> MapReviewComments(raw)]
          /\ pc' = "issueComments"
          /\ UNCHANGED result
     \/ \E e \in Rejections : FailComments("api pulls comments", e, "rejected")
     \/ \E e \in SyntaxErrors : FailComments("api pulls comments", e, "unparsable")
  /\ UNCHANGED <<tool, args, parsed, repoContext>>

FetchIssueComments ==
  /\ tool = "github-pr-comments" /\ pc = "issueComments"
  /\ \/ \E raw \in FetchedIssueComments :
          /\ calls' = Append(calls, Call("api issues comments", repoContext,
                                         parsed.number, "ok", raw, NoOutput))
          /\ locals' = [reviewComments |-> locals.reviewComments,
                        issueComments |-> MapIssueComments(raw)]
          /\ pc' = "reviews"
          /\ UNCHANGED result
     \/ \E e \in Rejections : FailComments("api issues comments", e, "rejected")
     \/ \E e \in SyntaxErrors : FailComments("api issues comments", e, "unparsable")
  /\ UNCHANGED <<tool, args, parsed, repoContext>>

FetchReviews ==
  /\ tool = "github-pr-comments" /\ pc = "reviews"
  /\ \/ \E raw \in FetchedReviews :
          LET a == Assemble(locals.reviewComments, locals.issueComments,
                            MapReviews(raw))
          IN  /\ calls' = Append(calls, Call("api pulls reviews", repoContext,
                                             parsed.number, "ok", raw, NoOutput))
              /\ result' = IF a.thrown THEN Returned(CatchComments(TypeError))
                           ELSE Returned(a.output)
              /\ pc' = "done"
              /\ locals' = NoLocals
     \/ \E e \in Rejections : FailComments("api pulls reviews", e, "rejected")
     \/ \E e \in SyntaxErrors : FailComments("api pulls reviews", e, "unparsable")
  /\ UNCHANGED <<tool, args, parsed, repoContext>>

\* reference and hint pairs the comment and review tools are run on
ToolInputs ==
  { <<<<"7">>, None>>,
    <<<<"7">>, Some(<<"o", "/", "r">>)>>,
    <<<<"7">>, Some(<<"o">>)>>,
    <<<<"x">>, None>>,
    <<Scheme \o <<GH, "/", "o", "/", "r", "/", "pull", "/", "7">>, None>> }

InitComments ==
  \E in \in ToolInputs : InitTool("github-pr-comments", DefaultArgs(in[1], in[2]))

(***************************************************************************)
(* github-pr-review.ts: the payload, the preview and execute.              *)
(* A JSON object is a record; a property that is not set is not a field.   *)
(***************************************************************************)
With(rec, key, val) ==
  [k \in DOMAIN rec \cup {key} |-> IF k = key THEN val ELSE rec[k]]

\* `if (x) target.key = x` for an optional string
WithIfSet(rec, key, opt) == IF opt # None THEN With(rec, key, opt[1]) ELSE rec

\* `if (x) target.key = x` for an optional number: 0 is falsy
WithIfTruthyNumber(rec, key, opt) ==
  IF opt # None /\ opt[1] # 0 THEN With(rec, key, opt[1]) ELSE rec

\* a property set to a value that may be undefined, after JSON.stringify
WithIfDefined(rec, key, opt) == IF opt # None THEN With(rec, key, opt[1]) ELSE rec

\* lines 103-120: one inline comment of the payload
PayloadComment(c) ==
  WithIfSet(
    WithIfTruthyNumber(
      WithIfSet([path |-> c.path, line |-> c.line, body |-> c.body],
                "side", c.side),
      "start_line", c.startLine),
    "start_side", c.startSide)

ArgEvent(a) == IF a.event = None THEN "COMMENT" ELSE a.event[1]
ArgComments(a) == IF a.comments = None THEN <<>> ELSE a.comments[1]

IsDryRunNever(a) == FALSE

IsDryRun(a) == a.dryRun = Some(TRUE)

\* a payload that always carries the comments array
reviewPayloadWithArray(commitId, body, event, comments) ==
  [commit_id |-> commitId, body |-> body, event |-> event,
   comments |-> [i \in 1..Len(comments) |-> PayloadComment(comments[i])]]

\* lines 83-121
reviewPayload(commitId, body, event, comments) ==
  LET base == [commit_id |-> commitId, body |-> body, event |-> event]
  IN  IF Len(comments) > 0
      THEN With(base, "comments",
                [i \in 1..Len(comments) |-> PayloadComment(comments[i])])
      ELSE base

\* `https://github.com/${repoContext}/pull/${parsed.number}`
PrUrl(context, number) ==
  Scheme \o <<GH, "/">> \o context \o <<"/", "pull", "/">> \o NumberToString(number)

PreviewComment(c) ==
  WithIfDefined([file |-> c.path, line |-> c.line, body |-> c.body],
                "startLine", c.startLine)

\* lines 124-146
DryRunPreview(context, number, body, event, comments) ==
  [dryRun |-> TRUE,
   wouldSubmit |->
     [repository |-> context,
      pullRequest |-> number,
      prUrl |-> PrUrl(context, number),
      event |-> event,
      reviewBody |-> body,
      inlineComments |-> [i \in 1..Len(comments) |-> PreviewComment(comments[i])],
      totalInlineComments |-> Len(comments)],
   message |-> <<"Dry run complete. No review was submitted.">>]

\* lines 157-170
SubmissionResult(context, number, event, comments, response) ==
  [success |-> TRUE,
   reviewId |-> response.id,
   reviewUrl |-> response.html_url,
   state |-> response.state,
   summary |-> [repository |-> context, pullRequest |-> number, event |-> event,
                inlineCommentsPosted |-> Len(comments)],
   message |-> <<"Review submitted successfully. View it at: ">> \o response.html_url]

HasOpenBrace(f) == f \in {"{json}", "{broken"}
HasCloseBrace(f) == f \in {"{json}", "broken}"}

\* error.message.match(/\{[\s\S]*\}/): from the first "{" to the last "}"
BraceMatch(message) ==
  LET opens == {i \in 1..Len(message) : HasOpenBrace(message[i])}
      first == CHOOSE i \in opens : \A j \in opens : i <= j
      closes == {i \in 1..Len(message) : HasCloseBrace(message[i]) /\ i >= first}
      last == CHOOSE i \in closes : \A j \in closes : j <= i
  IN  IF opens = {} THEN None
      ELSE IF closes = {} THEN None
      ELSE Some(SubSeq(message, first, last))

\* JSON.parse of the matched text succeeds on a JSON object alone
ParsesAsJson(text) == text = <<"{json}">>

ApiError == [message |-> <<"Validation Failed">>,
             errors |-> <<"line must be part of the diff">>]

\* the catch block of github-pr-review.ts, lines 171-207
CatchReview(e) ==
  IF ~e.isError THEN [error |-> <<"An unknown error occurred">>]
  ELSE IF BraceMatch(e.message) # None /\ ParsesAsJson(BraceMatch(e.message)[1])
    THEN [error |-> <<"Failed to submit review">>,
          message |-> ApiError.message, errors |-> ApiError.errors]
  ELSE IF includes(e.message, "gh: command not found")
    THEN [error |-> <<"GitHub CLI (gh) is not installed">>]
  ELSE IF includes(e.message, "not logged in") \/ includes(e.message, "401")
    THEN [error |-> <<"Not authenticated with GitHub">>]
  ELSE IF includes(e.message, "422")
    THEN [error |-> <<"Invalid review submission">>, details |-> e.message]
  ELSE [error |-> e.message]

\* lines 76-80
CouldNotFetchPrDetails(e) ==
  [error |-> <<"Could not fetch PR details: ">>
               \o (IF e.isError THEN e.message ELSE <<"unknown error">>)]

\* lines 61-68
RepoViewReview ==
  /\ tool = "github-pr-review" /\ pc = "repoView"
  /\ \/ \E out \in RepoViewOutputs :
          /\ calls' = Append(calls, Call("repo view", <<>>, 0, "ok", out, NoOutput))
          /\ repoContext' = trim(out)
          /\ pc' = "headSha"
          /\ UNCHANGED result
     \/ \E e \in Rejections :
          /\ calls' = Append(calls, Failed(Call("repo view", <<>>, 0, "rejected",
                                              NoOutput, NoOutput), e))
          /\ result' = Returned(CouldNotDetermineRepository)
          /\ pc' = "done"
          /\ UNCHANGED repoContext
  /\ UNCHANGED <<tool, args, parsed, locals>>

HeadShaOutputs == { <<"sha1", "\n">>, <<"sha2", "\r", "\n">> }

CommitIdUntrimmed(out) == out

\* commitId = prResult.trim()
CommitIdOf(out) == trim(out)

\* lines 71-146: the head commit is fetched, the payload is built and, in a
\* dry run, the preview is returned
FetchHeadSha ==
  /\ tool = "github-pr-review" /\ pc = "headSha"
  /\ \/ \E out \in HeadShaOutputs :
          /\ calls' = Append(calls, Call("api pulls head.sha", repoContext,
                                         parsed.number, "ok", out, NoOutput))
          /\ IF IsDryRun(args)
             THEN /\ result' = Returned(DryRunPreview(repoContext, parsed.number,
                                          args.body, ArgEvent(args), ArgComments(args)))
                  /\ pc' = "done"
                  /\ locals' = NoLocals
             ELSE /\ locals' = [reviewPayload |->
                                  reviewPayload(CommitIdOf(out), args.body,
                                                ArgEvent(args), ArgComments(args))]
                  /\ pc' = "post"
                  /\ UNCHANGED result
     \/ \E e \in Rejections :
          /\ calls' = Append(calls, Failed(Call("api pulls head.sha", repoContext,
                                                parsed.number, "rejected",
                                                NoOutput, NoOutput), e))
          /\ result' = Returned(CouldNotFetchPrDetails(e))
          /\ pc' = "done"
          /\ locals' = NoLocals
  /\ UNCHANGED <<tool, args, parsed, repoContext>>

PostResponses ==
  { [id |-> 501, html_url |-> Scheme \o <<GH, "/", "review">>, state |-> "COMMENTED"] }

FailReview(e, status) ==
  /\ calls' = Append(calls, Failed(Call("api pulls reviews POST", repoContext,
                                        parsed.number, status, NoOutput,
                                        locals.reviewPayload), e))
  /\ result' = Returned(CatchReview(e))
  /\ pc' = "done"
  /\ locals' = NoLocals

\* lines 148-207
PostReview ==
  /\ tool = "github-pr-review" /\ pc = "post"
  /\ \/ \E response \in PostResponses :
          /\ calls' = Append(calls, Call("api pulls reviews POST", repoContext,
                                         parsed.number, "ok", response,
                                         locals.reviewPayload))
          /\ result' = Returned(SubmissionResult(repoContext, parsed.number,
                                  ArgEvent(args), ArgComments(args), response))
          /\ pc' = "done"
          /\ locals' = NoLocals
     \/ \E e \in Rejections : FailReview(e, "rejected")
     \/ \E e \in SyntaxErrors : FailReview(e, "unparsable")
  /\ UNCHANGED <<tool, args, parsed, repoContext>>

Draft(line, side, startLine, startSide) ==
  [path |-> "src/a.ts", line |-> line, side |-> side, startLine |-> startLine,
   startSide |-> startSide, body |-> <<"nit">>]

Drafts ==
  { Draft(3, None, None, None),
    Draft(4, Some("LEFT"), None, None),
    Draft(5, None, Some(0), None),
    Draft(6, Some("RIGHT"), Some(2), Some("RIGHT")),
    Draft(8, None, None, Some("LEFT")) }

ReviewArgs ==
  { [pr |-> in[1], repo |-> in[2], body |-> <<"summary">>, event |-> ev,
     comments |-> cs, dryRun |-> dr] :
      in \in ToolInputs,
      ev \in {None, Some("REQUEST_CHANGES")},
      cs \in {None} \cup {Some(l) : l \in SeqsUpTo(Drafts, MaxDrafts)},
      dr \in {None, Some(TRUE), Some(FALSE)} }

InitReview == \E a \in ReviewArgs : InitTool("github-pr-review", a)

(***************************************************************************)
(* The three tools: one invocation of one of them.                         *)
(***************************************************************************)
Init == InitPr \/ InitComments \/ InitReview

Next ==
  \/ Parse
  \/ FetchMetadata \/ FetchDiff \/ FetchFiles \/ FetchCommits
  \/ RepoViewComments \/ FetchReviewComments \/ FetchIssueComments \/ FetchReviews
  \/ RepoViewReview \/ FetchHeadSha \/ PostReview

Spec == Init /\ [][Next]_vars

(***************************************************************************)
(* Claims about the resolver, checked under SpecResolve.                   *)
(***************************************************************************)
\* https://github.com/O/R/pull/N
WellFormedUrl(o, r, n) ==
  Scheme \o <<GH, "/">> \o o \o <<"/">> \o r \o <<"/", "pull", "/">> \o n

DecimalValue(n) == DigitsValue(n, 1, Len(n) + 1)

Resolved == tool = "parsePrReference" /\ pc = "done"

\* a path segment: not empty and without a separator
IsSegment(s) == s # <<>> /\ \A i \in 1..Len(s) : s[i] # "/"

IsNumeral(s) == s # <<>> /\ \A i \in 1..Len(s) : IsDigit(s[i])

\* C9: for every well-formed URL https://github.com/O/R/pull/N the resolver
\* returns exactly {owner: O, repo: R, number: N}, whatever the repo hint.
C9_UrlResolvesExactly ==
  Resolved =>
    \A b, c \in 7..Len(args.pr) :
      LET o == SubSeq(args.pr, 6, b - 1)
          r == SubSeq(args.pr, b + 1, c - 1)
          n == SubSeq(args.pr, c + 3, Len(args.pr))
      IN  (/\ b < c
           /\ IsSegment(o) /\ IsSegment(r) /\ IsNumeral(n)
           /\ args.pr = WellFormedUrl(o, r, n)) =>
            /\ parsed = [ok |-> TRUE, owner |-> o, repo |-> r,
                         number |-> DecimalValue(n)]
            /\ result = Returned([owner |-> o, repo |-> r,
                                  number |-> DecimalValue(n)])

\* a well-formed URL resolved next to a hint that names another repository
C9_Witness ==
  /\ Resolved
  /\ args.pr = WellFormedUrl(<<"o">>, <<"pull">>, <<"0", "7">>)
  /\ args.repo = Some(<<"r", "/", "o">>)
  /\ parsed.ok /\ parsed.owner = <<"o">> /\ parsed.repo = <<"pull">>
  /\ parsed.number = 7

IsBareInteger(s) == s # <<>> /\ \A i \in 1..Len(s) : IsDigit(s[i])

\* owner/repo: two non-empty segments around the one separator
HasOwnerRepoShape(h) ==
  /\ h # None
  /\ Cardinality({i \in 1..Len(h[1]) : h[1][i] = "/"}) = 1
  /\ h[1][1] # "/" /\ h[1][Len(h[1])] # "/"

SlashIndex(h) == CHOOSE i \in 1..Len(h[1]) : h[1][i] = "/"

\* C10: a bare integer reference resolves to the parsed number with the
\* hint's owner and repo when the hint has the shape owner/repo, and with
\* owner and repo both empty in every other case.
C10_BareNumberUsesHintOrNothing ==
  (Resolved /\ IsBareInteger(args.pr)) =>
    /\ parsed.ok /\ parsed.number = DecimalValue(args.pr)
    /\ HasOwnerRepoShape(args.repo) =>
         /\ parsed.owner = SubSeq(args.repo[1], 1, SlashIndex(args.repo) - 1)
         /\ parsed.repo = SubSeq(args.repo[1], SlashIndex(args.repo) + 1,
                                 Len(args.repo[1]))
    /\ ~HasOwnerRepoShape(args.repo) =>
         parsed.owner = <<>> /\ parsed.repo = <<>>

\* host/owner/repo/pull/<digits>, with or without the scheme, and nothing else
IsPullRequestUrl(s) ==
  \E i \in {1, 4} :
    /\ i = 4 => (Len(s) >= 3 /\ SubSeq(s, 1, 3) = Scheme)
    /\ UrlMatchAt(s, i) # None
    /\ \E b, c \in (i + 3)..Len(s) :
         /\ b < c
         /\ IsSegment(SubSeq(s, i + 2, b - 1))
         /\ IsSegment(SubSeq(s, b + 1, c - 1))
         /\ IsNumeral(SubSeq(s, c + 3, Len(s)))
         /\ SubSeq(s, i, Len(s)) =
              <<GH, "/">> \o SubSeq(s, i + 2, b - 1) \o <<"/">>
                \o SubSeq(s, b + 1, c - 1) \o <<"/", "pull", "/">>
                \o SubSeq(s, c + 3, Len(s))

\* a base-10 integer: digits, with or without a sign before them
IsBase10Integer(s) ==
  \/ IsNumeral(s)
  \/ Len(s) > 1 /\ s[1] \in {"-", "+"} /\ IsNumeral(SubSeq(s, 2, Len(s)))

InvalidReference == Escaped(<<"Invalid PR reference">>)

\* C11: a reference that is neither a pull-request URL nor a base-10
\* integer fails with the invalid-reference error and yields no tuple; the
\* empty string and strings that only begin with digits are such references.
C11_InvalidReferenceFails ==
  (Resolved /\ ~IsPullRequestUrl(args.pr) /\ ~IsBase10Integer(args.pr)) =>
    ~parsed.ok /\ result = InvalidReference


(***************************************************************************)
(* Claims about bot detection, checked under SpecBot.                      *)
(***************************************************************************)
Upper(t) ==
  CASE t = "a" -> "A"
    [] t = "b" -> "B"
    [] t = "c" -> "C"
    [] t = "d" -> "D"
    [] t = "e" -> "E"
    [] t = "f" -> "F"
    [] t = "g" -> "G"
    [] t = "h" -> "H"
    [] t = "i" -> "I"
    [] t = "j" -> "J"
    [] t = "k" -> "K"
    [] t = "l" -> "L"
    [] t = "m" -> "M"
    [] t = "n" -> "N"
    [] t = "o" -> "O"
    [] t = "p" -> "P"
    [] t = "q" -> "Q"
    [] t = "r" -> "R"
    [] t = "s" -> "S"
    [] t = "t" -> "T"
    [] t = "u" -> "U"
    [] t = "v" -> "V"
    [] t = "w" -> "W"
    [] t = "x" -> "X"
    [] t = "y" -> "Y"
    [] t = "z" -> "Z"
    [] OTHER -> t

UpperCased(s) == [i \in 1..Len(s) |-> Upper(s[i])]

HasSuffix(s, suf) ==
  Len(s) >= Len(suf) /\ SubSeq(s, Len(s) - Len(suf) + 1, Len(s)) = suf

\* the listed automation accounts, in capitals
ListedAccounts ==
  { <<"G", "I", "T", "H", "U", "B", "-", "A", "C", "T", "I", "O", "N", "S">>,
    <<"D", "E", "P", "E", "N", "D", "A", "B", "O", "T">>,
    <<"R", "E", "N", "O", "V", "A", "T", "E">>,
    <<"C", "O", "D", "E", "C", "O", "V">>,
    <<"S", "O", "N", "A", "R", "C", "L", "O", "U", "D">>,
    <<"N", "E", "T", "L", "I", "F", "Y">>,
    <<"V", "E", "R", "C", "E", "L">> }

\* the login, letter case set aside, ends with [bot] or bot or is listed
LooksAutomated(login) ==
  \/ HasSuffix(UpperCased(login), <<"[", "B", "O", "T", "]">>)
  \/ HasSuffix(UpperCased(login), <<"B", "O", "T">>)
  \/ UpperCased(login) \in ListedAccounts

\* the login with the case of its k-th character changed
CaseFlipped(login, k) ==
  [i \in 1..Len(login) |->
     IF i # k THEN login[i]
     ELSE IF Upper(login[i]) # login[i] THEN Upper(login[i]) ELSE Lower(login[i])]

Classified == tool = "isLikelyBot" /\ pc = "done"

\* C15: isBot answers for every login, and answers true iff the login,
\* letter case set aside, ends with [bot], ends with bot or is one of the
\* listed automation accounts; logins differing only in case get the same
\* answer.
C15_BotIffPatternCaseInsensitive ==
  Classified =>
    /\ result.kind = "returned"
    /\ result.json.isBot \in BOOLEAN
    /\ result.json.isBot <=> LooksAutomated(args.login)
    /\ \A k \in 1..Len(args.login) :
         isLikelyBot(CaseFlipped(args.login, k)) = result.json.isBot
    /\ isLikelyBot(UpperCased(args.login)) = result.json.isBot

\* DEPENDABOT, in capitals, classified as a bot
C15_Witness ==
  /\ Classified
  /\ args.login = <<"D", "E", "P", "E", "N", "D", "A", "B", "O", "T">>
  /\ result.json.isBot


(***************************************************************************)
(* Claims about the tools, checked under Spec.                             *)
(***************************************************************************)
Done == pc = "done"

IsErrorObject(json) == "error" \in DOMAIN json

IsSnapshot(json) == {"metadata", "stats", "files", "diff"} \subseteq DOMAIN json

IsCommentSet(json) == {"reviewComments", "commentsByFile", "threads"} \subseteq DOMAIN json

IsPreview(json) == "dryRun" \in DOMAIN json

IsSubmission(json) == "success" \in DOMAIN json

CallsOf(cmd) == {i \in 1..Len(calls) : calls[i].cmd = cmd}

\* C1: every invocation of a tool ends by returning an object, an error
\* object or a success result; nothing is thrown out of execute.
C1_NoExceptionEscapes ==
  (Done /\ tool \in {"github-pr", "github-pr-comments", "github-pr-review"}) =>
    /\ result.kind = "returned"
    /\ \/ IsErrorObject(result.json)
       \/ IsSnapshot(result.json) \/ IsCommentSet(result.json)
       \/ IsPreview(result.json) \/ IsSubmission(result.json)

DryRunInvocation == tool = "github-pr-review" /\ args.dryRun = Some(TRUE)

PreviewReturned == Done /\ result.kind = "returned" /\ IsPreview(result.json)

\* the preview names the pull request the calls were made on and counts
\* the comments supplied
PreviewIsFaithful ==
  LET w == result.json.wouldSubmit
      link == parsePrReference(w.prUrl, None)
  IN  /\ link.ok
      /\ RepoOf(link) = repoContext
      /\ link.number = parsed.number
      /\ SubSeq(w.prUrl, 1, 3) = Scheme
      /\ w.totalInlineComments = Len(ArgComments(args))
      /\ Len(w.inlineComments) = Len(ArgComments(args))

\* C2 as stated: a dry run makes no call to the external service at all,
\* and the preview holds the permalink and the number of comments supplied.
C2_DryRunMakesNoExternalCall ==
  DryRunInvocation =>
    /\ calls = <<>>
    /\ PreviewReturned => PreviewIsFaithful

\* C2 as amended: a dry run never issues the review POST (its only calls are
\* the ambient repository lookup and the head-commit fetch, both reads), and
\* a preview, when one is returned, holds the permalink and the number of
\* comments supplied.
C2_DryRunNeverPosts ==
  DryRunInvocation =>
    /\ \A i \in 1..Len(calls) : calls[i].cmd \in {"repo view", "api pulls head.sha"}
    /\ Done => \/ PreviewReturned
               \/ result.kind = "thrown"
               \/ result.kind = "returned" /\ IsErrorObject(result.json)
    /\ PreviewReturned => PreviewIsFaithful

\* a dry run that returned its preview of two comments after the head-commit fetch
C2_Witness ==
  /\ DryRunInvocation /\ PreviewReturned
  /\ CallsOf("api pulls head.sha") # {}
  /\ result.json.wouldSubmit.totalInlineComments = 2
  /\ result.json.wouldSubmit.prUrl =
       Scheme \o <<GH, "/", "o", "/", "r", "/", "pull", "/", "7">>

\* the fields of the submitted payload and their counterparts in the preview
TopCounterpart == [commit_id |-> "commitId", body |-> "reviewBody", event |-> "event"]

CommentCounterpart ==
  [path |-> "file", line |-> "line", side |-> "side", start_line |-> "startLine",
   start_side |-> "startSide", body |-> "body"]

SameFields(sent, echoed, counterpart) ==
  \A f \in DOMAIN counterpart : (f \in DOMAIN sent) <=> (counterpart[f] \in DOMAIN echoed)

\* the payload a submission with the same inputs sends
WouldBeSent ==
  reviewPayload(CommitIdOf(calls[CHOOSE i \in CallsOf("api pulls head.sha") : TRUE].out),
                args.body, ArgEvent(args), ArgComments(args))

\* C3: for identical inputs the preview of a dry run and the payload of a
\* submission have the same fields: commit id, body, event and, per
\* comment, path, line, side, start line, start side and body.
C3_PreviewMatchesPayload ==
  PreviewReturned =>
    LET sent == WouldBeSent
        echoed == result.json.wouldSubmit
        n == Len(ArgComments(args))
    IN  /\ SameFields(sent, echoed, TopCounterpart)
        /\ Len(echoed.inlineComments) = n
        /\ \A i \in 1..n :
             SameFields(sent.comments[i], echoed.inlineComments[i], CommentCounterpart)

IsPost(c) == c.cmd = "api pulls reviews POST"
IsHeadSha(c) == c.cmd = "api pulls head.sha"

\* C4: the review POST is issued only after the head-commit fetch of the
\* same pull request succeeded in this invocation, with the SHA it returned
\* as commit_id; when the fetch fails nothing is posted and the tool returns
\* the 'could not fetch PR details' error.
C4_PostOnlyAfterHeadSha ==
  /\ \A i \in 1..Len(calls) :
       IsPost(calls[i]) =>
         \E j \in 1..(i - 1) :
           /\ IsHeadSha(calls[j]) /\ calls[j].ok
           /\ calls[j].repoArg = calls[i].repoArg
           /\ calls[j].number = calls[i].number
           /\ calls[j].out \in HeadShaOutputs
           /\ Len(calls[i].input.commit_id) = 1
           /\ calls[i].input.commit_id[1] = calls[j].out[1]
           /\ \A k \in 2..Len(calls[j].out) : calls[j].out[k] \in {"\r", "\n"}
  /\ \A j \in 1..Len(calls) :
       (IsHeadSha(calls[j]) /\ ~calls[j].ok) =>
         /\ \A i \in 1..Len(calls) : ~IsPost(calls[i])
         /\ Done /\ result.kind = "returned"
         /\ DOMAIN result.json = {"error"}
         /\ result.json.error[1] = "Could not fetch PR details: "

\* a review posted with the SHA the head-commit fetch returned
C4_Witness ==
  \E i \in 1..Len(calls) :
    /\ IsPost(calls[i]) /\ calls[i].ok
    /\ calls[i].input.commit_id = <<"sha2">>
    /\ Done /\ IsSubmission(result.json)

ErrorFields == {"error", "message", "errors", "details"}

TextOf(json) ==
  UNION {{json[f][i] : i \in 1..Len(json[f])} : f \in DOMAIN json}

\* the text the successful repo view and head.sha calls returned
FetchedText ==
  UNION {{calls[i].out[k] : k \in 1..Len(calls[i].out)} :
           i \in {j \in 1..Len(calls) :
                    calls[j].ok /\ calls[j].cmd \in {"repo view", "api pulls head.sha"}}}
    \ {"\n", "\r", "/"}

ExpectedCalls ==
  CASE tool = "github-pr" ->
         <<"pr view metadata", "pr diff", "pr view files", "pr view commits">>
    [] tool = "github-pr-comments" ->
         (IF NeedsAmbient(parsed) THEN <<"repo view">> ELSE <<>>)
           \o <<"api pulls comments", "api issues comments", "api pulls reviews">>
    [] tool = "github-pr-review" ->
         (IF NeedsAmbient(parsed) THEN <<"repo view">> ELSE <<>>)
           \o <<"api pulls head.sha">>
           \o (IF IsDryRun(args) THEN <<>> ELSE <<"api pulls reviews POST">>)

\* C5: once a call has failed no further call is issued (no retry, no later
\* fetch) and the tool returns one error object holding nothing of what
\* was fetched before; a snapshot or comment set is returned only when
\* every fetch succeeded.
C5_FailFast ==
  /\ \A i \in 1..(Len(calls) - 1) : calls[i].status = "ok"
  /\ \A i, j \in 1..Len(calls) : i # j => calls[i].cmd # calls[j].cmd
  /\ (\E i \in 1..Len(calls) : calls[i].status # "ok") =>
       /\ Done /\ result.kind = "returned"
       /\ IsErrorObject(result.json)
       /\ DOMAIN result.json \subseteq ErrorFields
       /\ TextOf(result.json) \cap FetchedText = {}
  /\ (result.kind = "returned" /\
        (IsSnapshot(result.json) \/ IsCommentSet(result.json)
           \/ IsSubmission(result.json))) =>
       /\ Len(calls) = Len(ExpectedCalls)
       /\ \A i \in 1..Len(calls) :
            calls[i].status = "ok" /\ calls[i].cmd = ExpectedCalls[i]

\* the third fetch of a snapshot failed after two that succeeded
C5_Witness ==
  /\ tool = "github-pr" /\ Done
  /\ Len(calls) = 3 /\ calls[1].ok /\ calls[2].ok /\ ~calls[3].ok
  /\ IsErrorObject(result.json)

\* the comment list of the comment tool's successful first fetch
FetchedComments ==
  MapReviewComments(calls[CHOOSE i \in CallsOf("api pulls comments") : TRUE].out)

AllFetched ==
  /\ tool = "github-pr-comments" /\ Done
  /\ Len(calls) = Len(ExpectedCalls)
  /\ \A i \in 1..Len(calls) : calls[i].status = "ok"

IsOrphan(rc, i) ==
  /\ rc[i].inReplyToId # None
  /\ \A j \in 1..Len(rc) : rc[j].id # rc[i].inReplyToId[1]

InSomeThread(th, c) ==
  \E k \in 1..Len(th) :
    th[k].parent = c \/ \E m \in 1..Len(th[k].replies) : th[k].replies[m] = c

InBucketOfItsPath(entries, c) ==
  \E k \in 1..Len(entries) :
    /\ entries[k].path = c.path
    /\ \E m \in 1..Len(entries[k].comments) : entries[k].comments[m] = c

\* C7: a comment whose inReplyToId names an id no comment of the input has
\* is in no thread, as parent or as reply, and is still in the output: in
\* reviewComments and in the commentsByFile bucket of its path.
C7_OrphanSurfaced ==
  AllFetched =>
    LET rc == FetchedComments
    IN  \A i \in 1..Len(rc) :
          IsOrphan(rc, i) =>
            /\ result.kind = "returned" /\ IsCommentSet(result.json)
            /\ ~InSomeThread(result.json.threads, rc[i])
            /\ \E m \in 1..Len(result.json.reviewComments) :
                 result.json.reviewComments[m] = rc[i]
            /\ InBucketOfItsPath(result.json.commentsByFile, rc[i])

\* the resolver has returned a tuple
HasReference == pc # "parse" /\ parsed.ok

\* C12: every reference the resolver returns has a number >= 1 (a zero or
\* negative number fails instead), so no external call carries a
\* non-positive pull-request number.
C12_NumberIsPositive ==
  /\ HasReference => parsed.number >= 1
  /\ \A i \in 1..Len(calls) :
       calls[i].cmd # "repo view" => calls[i].number >= 1

PostCalls == {i \in 1..Len(calls) : IsPost(calls[i])}

\* a submission (not a dry run) whose head commit was fetched
ReadyToPost ==
  /\ tool = "github-pr-review" /\ Done /\ ~IsDryRun(args)
  /\ \E j \in 1..Len(calls) : IsHeadSha(calls[j]) /\ calls[j].ok

\* C13: a submission with no inline comments (omitted or an empty list)
\* is posted like any other and its payload has no comments field; the
\* payload has a comments field iff at least one comment was supplied, and
\* then one entry per supplied comment, in the same order.
C13_CommentsFieldIffSupplied ==
  /\ ReadyToPost => PostCalls # {}
  /\ \A i \in PostCalls :
       LET sent == calls[i].input
           supplied == ArgComments(args)
       IN  /\ ("comments" \in DOMAIN sent) <=> (Len(supplied) > 0)
           /\ "comments" \in DOMAIN sent =>
                /\ Len(sent.comments) = Len(supplied)
                /\ \A k \in 1..Len(supplied) :
                     /\ sent.comments[k].path = supplied[k].path
                     /\ sent.comments[k].line = supplied[k].line
                     /\ sent.comments[k].body = supplied[k].body

\* a review with an empty comment list was posted and accepted
C13_Witness ==
  /\ Done /\ IsSubmission(result.json)
  /\ args.comments = Some(<<>>)
  /\ \E i \in PostCalls : "comments" \notin DOMAIN calls[i].input


\* the entry carries the field iff the draft's optional value was set, and
\* then with the draft's value
CarriesIffSet(entry, field, opt) ==
  /\ (field \in DOMAIN entry) <=> (opt # None)
  /\ field \in DOMAIN entry => entry[field] = opt[1]

\* C14: every payload entry carries path, line and body; it carries side
\* iff the draft's side was set, start_line iff startLine was set and
\* start_side iff startSide was set; an unset field is absent.
C14_OptionalFieldsIffSet ==
  \A i \in PostCalls :
    LET supplied == ArgComments(args)
    IN  \A k \in 1..Len(supplied) :
          LET entry == calls[i].input.comments[k]
          IN  /\ {"path", "line", "body"} \subseteq DOMAIN entry
              /\ entry.path = supplied[k].path
              /\ entry.line = supplied[k].line
              /\ entry.body = supplied[k].body
              /\ CarriesIffSet(entry, "side", supplied[k].side)
              /\ CarriesIffSet(entry, "start_line", supplied[k].startLine)
              /\ CarriesIffSet(entry, "start_side", supplied[k].startSide)

\* the metadata the snapshot was built from
FetchedMetadata ==
  calls[CHOOSE i \in 1..Len(calls) : calls[i].cmd = "pr view metadata"].out

SnapshotReturned == tool = "github-pr" /\ Done /\ IsSnapshot(result.json)

\* C16: the snapshot's totalLinesChanged is additions + deletions, and its
\* sizeCategory is small for a total <= 100, medium for 101..500, large for
\* 501..1000 and very large from 1001 on.
C16_SizeCategoryByTotal ==
  SnapshotReturned =>
    LET total == FetchedMetadata.additions + FetchedMetadata.deletions
        stats == result.json.stats
    IN  /\ stats.totalLinesChanged = total
        /\ total \in 0..100 => stats.sizeCategory = "small"
        /\ total \in 101..500 => stats.sizeCategory = "medium"
        /\ total \in 501..1000 => stats.sizeCategory = "large"
        /\ total >= 1001 => stats.sizeCategory = "very large"

\* 100 additions and one deletion: the first total that is medium
C16_Witness ==
  /\ SnapshotReturned
  /\ FetchedMetadata.additions = 100 /\ FetchedMetadata.deletions = 1
  /\ result.json.stats.totalLinesChanged = 101
  /\ result.json.stats.sizeCategory = "medium"

\* the review tool is done and its last call, the POST, was rejected
PostRejected ==
  /\ tool = "github-pr-review" /\ Done /\ calls # <<>>
  /\ IsPost(calls[Len(calls)]) /\ calls[Len(calls)].status = "rejected"
  /\ calls[Len(calls)].error.isError

RejectionText == calls[Len(calls)].error.message

LineNotInDiffError == <<"Invalid review submission">>

\* C17: a POST rejected with HTTP 422 yields the dedicated 'invalid review
\* submission' error, whatever else the failure text holds (the API's JSON
\* error body included), and no other rejected POST yields it.
C17_Http422IsDedicatedError ==
  PostRejected =>
    /\ result.kind = "returned"
    /\ includes(RejectionText, "422") <=> result.json.error = LineNotInDiffError

\* the review tool is done and its last call was rejected
ReviewCallRejected ==
  /\ tool = "github-pr-review" /\ Done /\ calls # <<>>
  /\ calls[Len(calls)].status = "rejected"

\* the text of what the last call threw, empty when it is not an Error
ThrownText ==
  IF calls[Len(calls)].error.isError THEN calls[Len(calls)].error.message
  ELSE <<>>

\* which of the failure conditions the rejected call is
FailureCondition ==
  IF includes(ThrownText, "rate limit") THEN "rate limited"
  ELSE IF calls[Len(calls)].cmd = "repo view" THEN "unresolved context"
  ELSE IF IsHeadSha(calls[Len(calls)]) THEN "head commit"
  ELSE IF includes(ThrownText, "422") THEN "line not in diff"
  ELSE IF includes(ThrownText, "not logged in") \/ includes(ThrownText, "401")
    THEN "authentication"
  ELSE "other"

NotAuthenticatedError == <<"Not authenticated with GitHub">>

\* the messages kept for a condition of their own
DedicatedErrors ==
  {CouldNotDetermineRepository.error, LineNotInDiffError, NotAuthenticatedError}

IsHeadCommitError(text) == text # <<>> /\ text[1] = "Could not fetch PR details: "

\* the error says to wait and try again
SuggestsRetry(text) == \E k \in 1..Len(text) : text[k] = "wait and retry"

\* C18: each failure condition of the review tool (unresolved repository
\* context, head-commit fetch failure, line-not-in-diff rejection,
\* authentication failure, rate limiting) has an error message of its own,
\* which no other condition and no passed-through failure yields; a
\* rate-limited call yields an error that suggests waiting and retrying.
C18_FailureConditionsDistinct ==
  ReviewCallRejected =>
    LET text == result.json.error
        cond == FailureCondition
    IN  /\ result.kind = "returned"
        /\ text = CouldNotDetermineRepository.error <=> cond = "unresolved context"
        /\ IsHeadCommitError(text) <=> cond = "head commit"
        /\ text = LineNotInDiffError <=> cond = "line not in diff"
        /\ text = NotAuthenticatedError <=> cond = "authentication"
        /\ cond = "rate limited" =>
             /\ SuggestsRetry(text)
             /\ text \notin DedicatedErrors /\ ~IsHeadCommitError(text)
             /\ text # ThrownText

IsRepoView(c) == c.cmd = "repo view"

\* one of the two tools that need a repository context, past its lookup
ContextSettled ==
  /\ tool \in {"github-pr-comments", "github-pr-review"}
  /\ parsed.ok /\ pc \notin {"parse", "repoView"}

\* C19: the comment and review tools look the ambient repository up iff
\* the resolved reference has an empty owner or repo; a failed lookup
\* returns the 'could not determine repository' error and is the last
\* external call; a reference with owner and repo is never looked up.
C19_AmbientLookupIffNoOwnerRepo ==
  /\ ContextSettled =>
       ((\E i \in 1..Len(calls) : IsRepoView(calls[i]))
          <=> (parsed.owner = <<>> \/ parsed.repo = <<>>))
  /\ \A i \in 1..Len(calls) :
       (IsRepoView(calls[i]) /\ ~calls[i].ok) =>
         /\ i = Len(calls) /\ i = 1
         /\ Done /\ result = Returned(CouldNotDetermineRepository)

\* the review tool, given a bare number and no hint, failed its lookup
C19_Witness ==
  /\ tool = "github-pr-review" /\ Done
  /\ args.pr = <<"7">> /\ args.repo = None
  /\ parsed.owner = <<>> /\ parsed.repo = <<>>
  /\ Len(calls) = 1 /\ IsRepoView(calls[1]) /\ ~calls[1].ok
  /\ result = Returned(CouldNotDetermineRepository)


(***************************************************************************)
(* Claims about the assembler, checked under SpecAssemble.                 *)
(***************************************************************************)
Assembled == tool = "assemble" /\ Done /\ result.kind = "returned"

\* the k-th smallest index of a set of indices
NthOf(S, k) == CHOOSE i \in S : Cardinality({j \in S : j < i}) = k - 1

\* the elements of q at the indices S, in the order of q
At(q, S) == [k \in 1..Cardinality(S) |-> q[NthOf(S, k)]]

RootIndices(rc) == {i \in 1..Len(rc) : rc[i].inReplyToId = None}

ReplyIndices(rc, id) ==
  {i \in 1..Len(rc) : rc[i].inReplyToId # None /\ rc[i].inReplyToId[1] = id}

\* C6: the threads are one thread per comment without inReplyToId, and none
\* for any other comment, in input order; the replies of a thread are the
\* comments whose inReplyToId is the id of its root, in input order.
C6_ThreadsAreRootsWithReplies ==
  Assembled =>
    LET rc == result.json.reviewComments
        th == result.json.threads
        raw == args.reviewCommentsRaw
    IN  /\ Len(rc) = Len(raw)
        /\ \A i \in 1..Len(rc) :
             /\ rc[i].id = raw[i].id
             /\ rc[i].inReplyToId =
                  (IF raw[i].in_reply_to_id \in {None, Some(0)} THEN None
                   ELSE raw[i].in_reply_to_id)
        /\ Len(th) = Cardinality(RootIndices(rc))
        /\ \A k \in 1..Len(th) :
             /\ th[k].parent = rc[NthOf(RootIndices(rc), k)]
             /\ th[k].replies = At(rc, ReplyIndices(rc, th[k].parent.id))

\* a root (id 1) followed by its two replies (ids 2 and 3), in that order
C6_Witness ==
  /\ Assembled
  /\ Len(result.json.threads) = 1
  /\ result.json.threads[1].parent.id = 1
  /\ Len(result.json.threads[1].replies) = 2
  /\ result.json.threads[1].replies[1].id = 2
  /\ result.json.threads[1].replies[2].id = 3

PathIndices(raw, path) == {i \in 1..Len(raw) : raw[i].path = path}

FirstSeen(raw) == {i \in 1..Len(raw) : \A j \in 1..(i - 1) : raw[j].path # raw[i].path}

\* C8: commentsByFile holds one bucket per distinct path of the input, the
\* buckets in the order in which their paths first occur, each bucket
\* holding the comments of its path in input order.
C8_BucketsInFirstSeenOrder ==
  (tool = "assemble" /\ Done) =>
    /\ result.kind = "returned"
    /\ LET raw == args.reviewCommentsRaw
           rc == result.json.reviewComments
           by == result.json.commentsByFile
       IN  /\ Len(by) = Cardinality(FirstSeen(raw))
           /\ \A k \in 1..Len(by) :
                /\ by[k].path = raw[NthOf(FirstSeen(raw), k)].path
                /\ by[k].comments = At(rc, PathIndices(raw, by[k].path))


\* the comment at index i answers a comment that is in the input and is a
\* reply itself
IsDeepReply(rc, i) ==
  /\ rc[i].inReplyToId # None
  /\ \E j \in 1..Len(rc) : rc[j].id = rc[i].inReplyToId[1]
  /\ \A j \in 1..Len(rc) :
       rc[j].id = rc[i].inReplyToId[1] => rc[j].inReplyToId # None

\* C20: a comment that replies to a reply (reply depth greater than one)
\* is in no thread, neither as the parent nor among the replies; it is not
\* attached to the thread of its ancestor root.
C20_DeepReplyInNoThread ==
  Assembled =>
    LET rc == result.json.reviewComments
        th == result.json.threads
    IN  \A i \in 1..Len(rc) :
          IsDeepReply(rc, i) =>
            \A k \in 1..Len(th) :
              /\ th[k].parent # rc[i]
              /\ \A m \in 1..Len(th[k].replies) : th[k].replies[m] # rc[i]

\* a root (id 1), its reply (id 2) and a reply to that reply (id 3): one
\* thread, holding the root and the first reply only
C20_Witness ==
  /\ Assembled
  /\ Len(args.reviewCommentsRaw) = 3
  /\ args.reviewCommentsRaw[1].id = 1
  /\ args.reviewCommentsRaw[1].in_reply_to_id = None
  /\ args.reviewCommentsRaw[2].id = 2
  /\ args.reviewCommentsRaw[2].in_reply_to_id = Some(1)
  /\ args.reviewCommentsRaw[3].id = 3
  /\ args.reviewCommentsRaw[3].in_reply_to_id = Some(2)
  /\ Len(result.json.threads) = 1
  /\ Len(result.json.threads[1].replies) = 1
  /\ result.json.threads[1].replies[1].id = 2

DistinctIds(raw) ==
  \A i, j \in 1..Len(raw) : i # j => raw[i].id # raw[j].id

\* where the comment of this id stands in the thread view: <<k, 0>> as the
\* parent of thread k, <<k, m>> as the m-th reply of thread k
Occurrences(th, id) ==
  {<<k, 0>> : k \in {n \in 1..Len(th) : th[n].parent.id = id}}
    \cup UNION {{<<k, m>> : m \in {n \in 1..Len(th[k].replies) :
                                     th[k].replies[n].id = id}} :
                 k \in 1..Len(th)}

RECURSIVE TotalReplies(_, _)
\* the replies of the first k threads, counted
TotalReplies(th, k) ==
  IF k = 0 THEN 0 ELSE TotalReplies(th, k - 1) + Len(th[k].replies)

\* C21: when the ids of the input are pairwise distinct, no comment stands
\* twice in the thread view (as a parent once or in one reply list once,
\* never both), so threads plus replies never exceed
\* stats.totalReviewComments, and stats.unresolvedThreads is the number of
\* thread roots.
C21_NoCommentTwiceInThreads ==
  (Assembled /\ DistinctIds(args.reviewCommentsRaw)) =>
    LET rc == result.json.reviewComments
        th == result.json.threads
        stats == result.json.stats
    IN  /\ \A i \in 1..Len(rc) : Cardinality(Occurrences(th, rc[i].id)) <= 1
        /\ stats.totalReviewComments = Len(args.reviewCommentsRaw)
        /\ Len(th) + TotalReplies(th, Len(th)) <= stats.totalReviewComments
        /\ stats.unresolvedThreads = Cardinality(RootIndices(rc))
        /\ stats.unresolvedThreads = Len(th)

\* a root (id 1), its reply (id 2) and a reply to a comment that is not in
\* the input (id 3): one thread with one reply, fewer than the three comments
C21_Witness ==
  /\ Assembled /\ DistinctIds(args.reviewCommentsRaw)
  /\ Len(args.reviewCommentsRaw) = 3
  /\ args.reviewCommentsRaw[1].in_reply_to_id = None
  /\ args.reviewCommentsRaw[2].in_reply_to_id = Some(args.reviewCommentsRaw[1].id)
  /\ args.reviewCommentsRaw[3].in_reply_to_id = Some(9)
  /\ result.json.stats.totalReviewComments = 3
  /\ result.json.stats.unresolvedThreads = 1
  /\ Len(result.json.threads) = 1
  /\ Len(result.json.threads[1].replies) = 1

=========================================================================
